---- MODULE Spec2Model ----
(***************************************************************************)
(* Model of src/main.py: JobApplication (record with a priority            *)
(* comparator) and JobTracker (a heapq-managed list job_heap plus the      *)
(* dictionary jobs keyed by (company, position)).                          *)
(*                                                                         *)
(* Records are objects with identity: recs[i] is the i-th JobApplication   *)
(* ever constructed, job_heap is a sequence of record ids laid out as the  *)
(* heapq array, jobs maps a key to a record id.  A record that was popped  *)
(* stays in recs (the caller holds the returned reference).                *)
(***************************************************************************)
EXTENDS Integers, Sequences, FiniteSets, TLC

VARIABLES recs, job_heap, jobs, last

vars == <<recs, job_heap, jobs, last>>

(***************************************************************************)
(* Bounds and input domains.                                               *)
(***************************************************************************)
MaxRecords == 3

Companies == {"Acme", "Globex"}
Positions == {"Eng"}

D_0601 == <<"2", "0", "2", "5", "-", "0", "6", "-", "0", "1">>
D_0501 == <<"2", "0", "2", "5", "-", "0", "5", "-", "0", "1">>
D_61 == <<"2", "0", "2", "5", "-", "6", "-", "1">>
D_0230 == <<"2", "0", "2", "5", "-", "0", "2", "-", "3", "0">>
D_slash == <<"0", "6", "/", "0", "1", "/", "2", "0", "2", "5">>

DeadlineInputs == {D_0601, D_0501, D_61, D_0230, D_slash}
ImportanceInputs == {0, 1, 2}
StatusInputs == {"Interviewing", "Processed", "Offer"}

VALID_STATUSES == {"Pending", "Processed", "Interviewing", "Rejected"}

(***************************************************************************)
(* datetime.strptime(deadline, "%Y-%m-%d").  The format compiles to the    *)
(* regular expression                                                      *)
(*   \d\d\d\d-(1[0-2]|0[1-9]|[1-9])-(3[0-1]|[1-2]\d|0[1-9]|[1-9]| [1-9])   *)
(* matched at the start of the string; unconverted trailing data and a     *)
(* day that the month does not have are ValueErrors.  NoDate stands for    *)
(* the ValueError.                                                         *)
(***************************************************************************)
Digits == {"0", "1", "2", "3", "4", "5", "6", "7", "8", "9"}

DigitVal == ("0" :> 0) @@ ("1" :> 1) @@ ("2" :> 2) @@ ("3" :> 3) @@ ("4" :> 4)
            @@ ("5" :> 5) @@ ("6" :> 6) @@ ("7" :> 7) @@ ("8" :> 8) @@ ("9" :> 9)

NoDate == <<>>

At(s, i) == IF i \in 1..Len(s) THEN s[i] ELSE "$"

IsLeap(y) == (y % 4 = 0 /\ y % 100 # 0) \/ y % 400 = 0

DaysInMonth(y, m) ==
    IF m = 2 THEN (IF IsLeap(y) THEN 29 ELSE 28)
    ELSE IF m \in {4, 6, 9, 11} THEN 30 ELSE 31

\* number of characters the month group matches at position i (0: no match)
MatchMonth(s, i) ==
    IF At(s, i) = "1" /\ At(s, i + 1) \in {"0", "1", "2"} THEN 2
    ELSE IF At(s, i) = "0" /\ At(s, i + 1) \in Digits \ {"0"} THEN 2
    ELSE IF At(s, i) \in Digits \ {"0"} THEN 1
    ELSE 0

\* number of characters the day group matches at position i (0: no match)
MatchDay(s, i) ==
    IF At(s, i) = "3" /\ At(s, i + 1) \in {"0", "1"} THEN 2
    ELSE IF At(s, i) \in {"1", "2"} /\ At(s, i + 1) \in Digits THEN 2
    ELSE IF At(s, i) = "0" /\ At(s, i + 1) \in Digits \ {"0"} THEN 2
    ELSE IF At(s, i) \in Digits \ {"0"} THEN 1
    ELSE IF At(s, i) = " " /\ At(s, i + 1) \in Digits \ {"0"} THEN 2
    ELSE 0

\* value of the n characters of a matched group starting at i
GroupVal(s, i, n) ==
    IF n = 1 THEN DigitVal[s[i]]
    ELSE IF s[i] = " " THEN DigitVal[s[i + 1]]
    ELSE 10 * DigitVal[s[i]] + DigitVal[s[i + 1]]

strptime(s) ==
    IF ~(\A i \in 1..4 : At(s, i) \in Digits) \/ At(s, 5) # "-" THEN NoDate
    ELSE LET ml == MatchMonth(s, 6) IN
         IF ml = 0 \/ At(s, 6 + ml) # "-" THEN NoDate
         ELSE LET dpos == 6 + ml + 1
                  dl == MatchDay(s, dpos)
              IN IF dl = 0 \/ dpos + dl - 1 # Len(s) THEN NoDate
                 ELSE LET y == 1000 * DigitVal[s[1]] + 100 * DigitVal[s[2]]
                                + 10 * DigitVal[s[3]] + DigitVal[s[4]]
                          m == GroupVal(s, 6, ml)
                          d == GroupVal(s, dpos, dl)
                      IN IF y < 1 \/ d > DaysInMonth(y, m) THEN NoDate
                         ELSE <<y, m, d>>

\* datetime < datetime
DateLT(a, b) ==
    \/ a[1] < b[1]
    \/ a[1] = b[1] /\ a[2] < b[2]
    \/ a[1] = b[1] /\ a[2] = b[2] /\ a[3] < b[3]

(***************************************************************************)
(* JobApplication.__lt__                                                   *)
(***************************************************************************)
\* variant: lower importance first
lt_low_importance_first(self, other) ==
    IF self.importance = other.importance
    THEN DateLT(self.deadline, other.deadline)
    ELSE self.importance < other.importance

\* variant: later deadline first among equal importance
lt_late_deadline_first(self, other) ==
    IF self.importance = other.importance
    THEN DateLT(other.deadline, self.deadline)
    ELSE self.importance > other.importance

\* variant: the status takes part in the ordering (Pending records first)
lt_status_first(self, other) ==
    IF (self.status = "Pending") # (other.status = "Pending")
    THEN self.status = "Pending"
    ELSE IF self.importance = other.importance
    THEN DateLT(self.deadline, other.deadline)
    ELSE self.importance > other.importance

\* variant: among equal importance, a deadline that is not later comes first
lt_deadline_not_later(self, other) ==
    IF self.importance = other.importance
    THEN ~DateLT(other.deadline, self.deadline)
    ELSE self.importance > other.importance

lt(self, other) ==
    IF self.importance = other.importance
    THEN DateLT(self.deadline, other.deadline)
    ELSE self.importance > other.importance

(***************************************************************************)
(* heapq.heappush / heapq.heappop on a list of record ids.  Positions are  *)
(* 0-based as in heapq; h[p + 1] is heap[p].  R is the record store.       *)
(***************************************************************************)
RECURSIVE siftdown(_, _, _, _, _)
siftdown(R, h, startpos, pos, newitem) ==
    IF pos > startpos
    THEN LET parentpos == (pos - 1) \div 2
             parent == h[parentpos + 1]
         IN IF lt(R[newitem], R[parent])
            THEN siftdown(R, [h EXCEPT ![pos + 1] = parent], startpos, parentpos, newitem)
            ELSE [h EXCEPT ![pos + 1] = newitem]
    ELSE [h EXCEPT ![pos + 1] = newitem]

RECURSIVE siftup(_, _, _, _, _)
siftup(R, h, startpos, pos, newitem) ==
    LET endpos == Len(h)
        childpos == 2 * pos + 1
    IN IF childpos < endpos
       THEN LET rightpos == childpos + 1
                c == IF rightpos < endpos /\ ~lt(R[h[childpos + 1]], R[h[rightpos + 1]])
                     THEN rightpos ELSE childpos
            IN siftup(R, [h EXCEPT ![pos + 1] = h[c + 1]], startpos, c, newitem)
       ELSE siftdown(R, [h EXCEPT ![pos + 1] = newitem], startpos, pos, newitem)

\* variant: the new item is written over the last slot of a non-empty list
heappush_overwrite(R, h, item) ==
    IF h = <<>> THEN <<item>>
    ELSE siftdown(R, [h EXCEPT ![Len(h)] = item], 0, Len(h) - 1, item)

heappush(R, h, item) ==
    siftdown(R, Append(h, item), 0, Len(h), item)

\* the list after heappop; the returned item is heappop_item
heappop_heap(R, h) ==
    LET lastelt == h[Len(h)]
        rest == SubSeq(h, 1, Len(h) - 1)
    IN IF rest # <<>> THEN siftup(R, [rest EXCEPT ![1] = lastelt], 0, 0, lastelt)
       ELSE rest

heappop_item(h) == h[1]

(***************************************************************************)
(* sorted(self.job_heap): a stable sort that only uses __lt__.             *)
(***************************************************************************)
RECURSIVE insert_sorted(_, _, _)
insert_sorted(R, s, x) ==
    IF s # <<>> /\ lt(R[x], R[s[Len(s)]])
    THEN Append(insert_sorted(R, SubSeq(s, 1, Len(s) - 1), x), s[Len(s)])
    ELSE Append(s, x)

\* variant: the heap array listed as it is
sorted_unsorted(R, h) == h

RECURSIVE sorted(_, _)
sorted(R, h) ==
    IF h = <<>> THEN <<>>
    ELSE insert_sorted(R, sorted(R, SubSeq(h, 1, Len(h) - 1)), h[Len(h)])

(***************************************************************************)
(* The observable outcome of the last call: what it printed, what it       *)
(* raised, the record it returned (0: None) and the records it listed.     *)
(***************************************************************************)
Call(op, printed, raised, ret, listing) ==
    [op |-> op, printed |-> printed, raised |-> raised, ret |-> ret, listing |-> listing]

(***************************************************************************)
(* JobTracker.__init__                                                     *)
(***************************************************************************)
Init ==
    /\ recs = <<>>
    /\ job_heap = <<>>
    /\ jobs = <<>>
    /\ last = Call("init", "", "none", 0, <<>>)

\* variant: an entry that exists is kept (setdefault)
dict_set_keep(d, k, v) ==
    IF k \in DOMAIN d THEN d ELSE [x \in DOMAIN d \cup {k} |-> IF x = k THEN v ELSE d[x]]

\* dict assignment self.jobs[k] = v
dict_set(d, k, v) == [x \in DOMAIN d \cup {k} |-> IF x = k THEN v ELSE d[x]]

\* variant: the entry is left in the dictionary
dict_del_skip(d, k) == d

\* del self.jobs[k], for k a key of the dict
dict_del(d, k) == [x \in DOMAIN d \ {k} |-> d[x]]

(***************************************************************************)
(* JobTracker.add_application                                              *)
(***************************************************************************)
add_application(company, position, deadline, importance) ==
    LET date == strptime(deadline)
    IN IF date = NoDate
       THEN /\ last' = Call("add_application",
                            "Error: Deadline must be in YYYY-MM-DD format.", "none", 0, <<>>)
            /\ UNCHANGED <<recs, job_heap, jobs>>
       ELSE IF importance <= 0
       THEN /\ last' = Call("add_application",
                            "Error: Importance must be a positive integer.", "none", 0, <<>>)
            /\ UNCHANGED <<recs, job_heap, jobs>>
       ELSE /\ Len(recs) < MaxRecords
            /\ LET job == [company |-> company, position |-> position, deadline |-> date,
                           importance |-> importance, status |-> "Pending"]
                   id == Len(recs) + 1
               IN /\ recs' = Append(recs, job)
                  /\ job_heap' = heappush(recs', job_heap, id)
                  /\ jobs' = dict_set(jobs, <<company, position>>, id)
                  /\ last' = Call("add_application", "Added", "none", 0, <<>>)

(***************************************************************************)
(* JobTracker.process_next_application                                     *)
(***************************************************************************)
\* variant: no emptiness test, heappop raises IndexError on the empty list
process_next_empty_raises ==
    /\ last' = Call("process_next_application", "", "IndexError", 0, <<>>)
    /\ UNCHANGED <<recs, job_heap, jobs>>

\* if not self.job_heap: print, return None
process_next_empty ==
    /\ last' = Call("process_next_application", "No pending applications.", "none", 0, <<>>)
    /\ UNCHANGED <<recs, job_heap, jobs>>

\* heappop, job.status = "Processed", del self.jobs[key] (KeyError when the key
\* is not in the dictionary: the pop and the status change have happened)
process_next_pop ==
    LET job == heappop_item(job_heap)
        key == <<recs[job].company, recs[job].position>>
    IN /\ job_heap' = heappop_heap(recs, job_heap)
       /\ recs' = [recs EXCEPT ![job].status = "Processed"]
       /\ IF key \in DOMAIN jobs
          THEN /\ jobs' = dict_del(jobs, key)
               /\ last' = Call("process_next_application", "Processing", "none", job, <<>>)
          ELSE /\ jobs' = jobs
               /\ last' = Call("process_next_application", "", "KeyError", 0, <<>>)

process_next_application ==
    IF job_heap = <<>> THEN process_next_empty ELSE process_next_pop

(***************************************************************************)
(* JobTracker.view_pending_applications                                    *)
(***************************************************************************)
view_pending_empty ==
    /\ last' = Call("view_pending_applications", "No pending applications.", "none", 0, <<>>)
    /\ UNCHANGED <<recs, job_heap, jobs>>

view_pending_list ==
    /\ last' = Call("view_pending_applications", "Pending Applications", "none", 0,
                    sorted(recs, job_heap))
    /\ UNCHANGED <<recs, job_heap, jobs>>

view_pending_applications ==
    IF job_heap = <<>> THEN view_pending_empty ELSE view_pending_list

(***************************************************************************)
(* JobTracker.update_status                                                *)
(***************************************************************************)
\* variant: new_status is not validated
update_status_unchecked(company, position, new_status) ==
    LET key == <<company, position>>
    IN IF key \notin DOMAIN jobs
       THEN /\ last' = Call("update_status", "not found", "none", 0, <<>>)
            /\ UNCHANGED <<recs, job_heap, jobs>>
       ELSE /\ recs' = [recs EXCEPT ![jobs[key]].status = new_status]
            /\ last' = Call("update_status", "Updated", "none", 0, <<>>)
            /\ UNCHANGED <<job_heap, jobs>>

\* variant: a record whose status is Processed is not updated any more
update_status_no_reopen(company, position, new_status) ==
    LET key == <<company, position>>
    IN IF key \notin DOMAIN jobs
       THEN /\ last' = Call("update_status", "not found", "none", 0, <<>>)
            /\ UNCHANGED <<recs, job_heap, jobs>>
       ELSE IF new_status \notin VALID_STATUSES \/ recs[jobs[key]].status = "Processed"
       THEN /\ last' = Call("update_status", "Error: Invalid status.", "none", 0, <<>>)
            /\ UNCHANGED <<recs, job_heap, jobs>>
       ELSE /\ recs' = [recs EXCEPT ![jobs[key]].status = new_status]
            /\ last' = Call("update_status", "Updated", "none", 0, <<>>)
            /\ UNCHANGED <<job_heap, jobs>>

update_status(company, position, new_status) ==
    LET key == <<company, position>>
    IN IF key \notin DOMAIN jobs
       THEN /\ last' = Call("update_status", "not found", "none", 0, <<>>)
            /\ UNCHANGED <<recs, job_heap, jobs>>
       ELSE IF new_status \notin VALID_STATUSES
       THEN /\ last' = Call("update_status", "Error: Invalid status.", "none", 0, <<>>)
            /\ UNCHANGED <<recs, job_heap, jobs>>
       ELSE /\ recs' = [recs EXCEPT ![jobs[key]].status = new_status]
            /\ last' = Call("update_status", "Updated", "none", 0, <<>>)
            /\ UNCHANGED <<job_heap, jobs>>

Add ==
    \E c \in Companies, p \in Positions, d \in DeadlineInputs, i \in ImportanceInputs :
        add_application(c, p, d, i)

ProcessNext == process_next_application

ViewPending == view_pending_applications

UpdateStatus ==
    \E c \in Companies, p \in Positions, s \in StatusInputs : update_status(c, p, s)

Next == Add \/ ProcessNext \/ ViewPending \/ UpdateStatus

Spec == Init /\ [][Next]_vars

(***************************************************************************)
(* The runs in which no add reuses a key that the index holds.             *)
(***************************************************************************)
AddFresh ==
    \E c \in Companies, p \in Positions, d \in DeadlineInputs, i \in ImportanceInputs :
        /\ <<c, p>> \notin DOMAIN jobs
        /\ add_application(c, p, d, i)

NextNoDup == AddFresh \/ ProcessNext \/ ViewPending \/ UpdateStatus

SpecNoDup == Init /\ [][NextNoDup]_vars

(***************************************************************************)
(* Vocabulary of the properties.                                           *)
(***************************************************************************)
Items(h) == {h[i] : i \in 1..Len(h)}

InHeap == Items(job_heap)

KeyOf(id) == <<recs[id].company, recs[id].position>>

\* the step is a process_next_application call on a non-empty queue
IsPopStep == job_heap # <<>> /\ last'.op = "process_next_application"

\* C1: whenever a record leaves the queue, no record that was in the queue
\* with it has a higher importance, and a process_next_application call on a
\* non-empty queue does take such a record out; so of two records queued
\* together the one with the higher importance always leaves first.
C1_PopsHighestImportance ==
    [][/\ \A b \in InHeap \ Items(job_heap') :
             \A a \in InHeap : recs[a].importance <= recs[b].importance
       /\ IsPopStep => InHeap \ Items(job_heap') # {}]_vars

\* a record was returned while a less important record that was added
\* before it is still queued
C1_Witness ==
    /\ last.op = "process_next_application"
    /\ last.ret # 0
    /\ \E b \in InHeap : b < last.ret /\ recs[b].importance < recs[last.ret].importance

\* C2: whenever a record leaves the queue, no record that was in the queue
\* with it and has the same importance has an earlier deadline.
C2_TieBreakEarlierDeadline ==
    [][\A b \in InHeap \ Items(job_heap') :
          \A a \in InHeap :
             recs[a].importance = recs[b].importance
                => ~DateLT(recs[a].deadline, recs[b].deadline)]_vars

\* a record was returned while a record of the same importance and a later
\* deadline that was added before it is still queued
C2_Witness ==
    /\ last.op = "process_next_application"
    /\ last.ret # 0
    /\ \E b \in InHeap :
          /\ b < last.ret
          /\ recs[b].importance = recs[last.ret].importance
          /\ DateLT(recs[last.ret].deadline, recs[b].deadline)

\* C3: when no add reuses a tracked key, the keys of the index are exactly
\* the keys of the queued records and each entry maps to the queued record
\* of its key.
C3_IndexMirrorsQueue ==
    /\ DOMAIN jobs = {KeyOf(id) : id \in InHeap}
    /\ \A k \in DOMAIN jobs : jobs[k] \in InHeap /\ KeyOf(jobs[k]) = k

\* adds and a pop have happened and one record is still queued
C3_Witness ==
    /\ last.op = "process_next_application"
    /\ last.ret # 0
    /\ Len(job_heap) = 1
    /\ DOMAIN jobs = {KeyOf(job_heap[1])}

\* C4: every queued record has its own index entry and every index entry
\* maps to a queued record, whatever the calls were.
C4_QueueIndexOneToOne ==
    /\ \A id \in InHeap : KeyOf(id) \in DOMAIN jobs /\ jobs[KeyOf(id)] = id
    /\ \A k \in DOMAIN jobs : jobs[k] \in InHeap

\* a string of the form YYYY-MM-DD (four, two and two digits) that names a
\* day of the calendar
IsValidDeadline(s) ==
    /\ Len(s) = 10
    /\ \A i \in {1, 2, 3, 4, 6, 7, 9, 10} : s[i] \in Digits
    /\ s[5] = "-" /\ s[8] = "-"
    /\ LET y == 1000 * DigitVal[s[1]] + 100 * DigitVal[s[2]] + 10 * DigitVal[s[3]]
                 + DigitVal[s[4]]
           m == 10 * DigitVal[s[6]] + DigitVal[s[7]]
           d == 10 * DigitVal[s[9]] + DigitVal[s[10]]
       IN y >= 1 /\ m \in 1..12 /\ d \in 1..DaysInMonth(y, m)

\* C5: an add_application call whose deadline is not a valid YYYY-MM-DD date
\* or whose importance is not positive returns without raising and leaves the
\* records, the queue and the index as they were.
C5_InvalidAddChangesNothing ==
    [][\A c \in Companies, p \in Positions, d \in DeadlineInputs, i \in ImportanceInputs :
          (~IsValidDeadline(d) \/ i <= 0) /\ add_application(c, p, d, i)
             => last'.raised = "none" /\ UNCHANGED <<recs, job_heap, jobs>>]_vars

\* C6: a process_next_application call on a non-empty queue completes
\* normally: it takes exactly one record out of the queue, a minimum of the
\* comparator, sets its status to Processed, leaves its key absent from the
\* index and returns it.
C6_ProcessNextCompletes ==
    [][IsPopStep =>
          /\ last'.raised = "none"
          /\ last'.ret \in InHeap
          /\ \A a \in InHeap : ~lt(recs[a], recs[last'.ret])
          /\ Items(job_heap') = InHeap \ {last'.ret}
          /\ Len(job_heap') = Len(job_heap) - 1
          /\ recs'[last'.ret].status = "Processed"
          /\ KeyOf(last'.ret) \notin DOMAIN jobs']_vars

\* C7: on an empty queue process_next_application and
\* view_pending_applications give the empty signal, raise nothing and leave
\* the records, the queue and the index as they were (so a repeated call
\* starts from the same state and gives the same result).
C7_EmptySignal ==
    [][job_heap = <<>>
        /\ last'.op \in {"process_next_application", "view_pending_applications"}
          => /\ last'.printed = "No pending applications."
             /\ last'.raised = "none"
             /\ last'.ret = 0
             /\ last'.listing = <<>>
             /\ UNCHANGED <<recs, job_heap, jobs>>]_vars

\* the empty signal was given by a tracker that has held records
C7_Witness ==
    /\ job_heap = <<>>
    /\ Len(recs) > 0
    /\ last.op \in {"process_next_application", "view_pending_applications"}
    /\ last.printed = "No pending applications."

\* the records in the order repeated heappop calls take them out
RECURSIVE PopOrder(_, _)
PopOrder(R, h) ==
    IF h = <<>> THEN <<>> ELSE <<heappop_item(h)>> \o PopOrder(R, heappop_heap(R, h))

\* C8: a successful update_status(company, position, new_status) changes the
\* status of the record the index maps the key to and nothing else: the
\* queue, the listing order, the pop order, the index and every other field
\* of every record stay as they were.
C8_UpdateStatusFrame ==
    [][\A c \in Companies, p \in Positions, s \in StatusInputs :
          <<c, p>> \in DOMAIN jobs /\ s \in VALID_STATUSES /\ update_status(c, p, s)
             => /\ job_heap' = job_heap
                /\ jobs' = jobs
                /\ sorted(recs', job_heap') = sorted(recs, job_heap)
                /\ PopOrder(recs', job_heap') = PopOrder(recs, job_heap)
                /\ recs' = [recs EXCEPT ![jobs[<<c, p>>]].status = s]]_vars

\* a queued record had its status updated while another record is queued
C8_Witness ==
    /\ last.op = "update_status"
    /\ last.printed = "Updated"
    /\ Len(job_heap) >= 2
    /\ \E id \in InHeap : recs[id].status = "Interviewing"

\* C9: update_status reports NotFound for a key the index does not hold and
\* InvalidStatus for a held key with an unrecognised status, and in both
\* cases changes no record, nor the queue, nor the index.
C9_UpdateStatusErrors ==
    [][\A c \in Companies, p \in Positions, s \in StatusInputs :
          update_status(c, p, s)
             => /\ <<c, p>> \notin DOMAIN jobs
                   => last'.printed = "not found" /\ UNCHANGED <<recs, job_heap, jobs>>
                /\ <<c, p>> \in DOMAIN jobs /\ s \notin VALID_STATUSES
                   => /\ last'.printed = "Error: Invalid status."
                      /\ UNCHANGED <<recs, job_heap, jobs>>]_vars

\* an unrecognised status was refused for a key the index holds, after a
\* key the index does not hold was refused or not
C9_Witness ==
    /\ last.op = "update_status"
    /\ last.printed = "Error: Invalid status."
    /\ jobs # <<>>
    /\ DOMAIN jobs # {<<c, p>> : c \in Companies, p \in Positions}

\* C10: view_pending_applications on a non-empty queue lists every queued
\* record once, no record before a more important one and, among equally
\* important ones, no record before one with an earlier deadline, and leaves
\* the records, the queue and the index as they were.
C10_ViewListsSorted ==
    [][job_heap # <<>> /\ last'.op = "view_pending_applications"
          => LET L == last'.listing IN
             /\ Len(L) = Len(job_heap)
             /\ Items(L) = InHeap
             /\ \A i, j \in 1..Len(L) :
                   i < j => /\ recs[L[i]].importance >= recs[L[j]].importance
                            /\ recs[L[i]].importance = recs[L[j]].importance
                                  => ~DateLT(recs[L[j]].deadline, recs[L[i]].deadline)
             /\ UNCHANGED <<recs, job_heap, jobs>>]_vars

\* three records were listed in an order that is not the order of the heap
\* array
C10_Witness ==
    /\ last.op = "view_pending_applications"
    /\ Len(last.listing) = 3
    /\ last.listing # job_heap
    /\ Items(last.listing) = InHeap

\* the call reported an error or raised
IsFailure(call) ==
    \/ call.raised # "none"
    \/ call.printed \in {"Error: Deadline must be in YYYY-MM-DD format.",
                         "Error: Importance must be a positive integer.",
                         "not found", "Error: Invalid status."}

\* C11: a call that fails leaves the records, the queue and the index as
\* they were; process_next_application never takes a record out or changes a
\* status and then fails.
C11_FailureChangesNothing ==
    [][IsFailure(last') => UNCHANGED <<recs, job_heap, jobs>>]_vars

\* the record the next process_next_application call takes out is stale:
\* the index does not map its key to it
TopIsStale ==
    /\ job_heap # <<>>
    /\ LET job == heappop_item(job_heap)
       IN KeyOf(job) \notin DOMAIN jobs \/ jobs[KeyOf(job)] # job

\* C12: popping a record whose key the index does not hold or maps to
\* another record completes normally and leaves the index as it was.
C12_StalePopKeepsIndex ==
    [][TopIsStale /\ last'.op = "process_next_application"
          => last'.raised = "none" /\ jobs' = jobs]_vars

\* C13: a successful add_application of a key the index holds maps the key
\* to the new record, and the record the key was mapped to stays queued with
\* its fields unchanged; a successful update_status sets the status of the
\* newest record of the key and changes no other record.
C13_DuplicateAddRemaps ==
    [][/\ \A c \in Companies, p \in Positions, d \in DeadlineInputs, i \in ImportanceInputs :
             <<c, p>> \in DOMAIN jobs /\ last'.printed = "Added" /\ add_application(c, p, d, i)
                => LET old == jobs[<<c, p>>]
                       new == Len(recs) + 1
                   IN /\ jobs'[<<c, p>>] = new
                      /\ old \in InHeap /\ old \in Items(job_heap')
                      /\ recs'[old] = recs[old]
       /\ \A c \in Companies, p \in Positions, s \in StatusInputs :
             <<c, p>> \in DOMAIN jobs /\ s \in VALID_STATUSES /\ update_status(c, p, s)
                => LET cur == jobs[<<c, p>>]
                   IN /\ \A id \in 1..Len(recs) : KeyOf(id) = <<c, p>> => id <= cur
                      /\ recs'[cur].status = s
                      /\ \A id \in (1..Len(recs)) \ {cur} : recs'[id] = recs[id]]_vars

\* two records of one key are queued, the index maps the key to the newer
\* one, and an update has changed the newer one only
C13_Witness ==
    /\ last.op = "update_status"
    /\ last.printed = "Updated"
    /\ \E old \in InHeap, new \in InHeap :
          /\ old < new
          /\ KeyOf(old) = KeyOf(new)
          /\ KeyOf(new) \in DOMAIN jobs
          /\ jobs[KeyOf(new)] = new
          /\ recs[new].status = "Interviewing"
          /\ recs[old].status = "Pending"

\* the calendar day a valid YYYY-MM-DD string names
DayNamed(s) ==
    <<1000 * DigitVal[s[1]] + 100 * DigitVal[s[2]] + 10 * DigitVal[s[3]] + DigitVal[s[4]],
      10 * DigitVal[s[6]] + DigitVal[s[7]],
      10 * DigitVal[s[9]] + DigitVal[s[10]]>>

\* C14: a successful add_application adds exactly one new record to the
\* queue, Pending and with the given company, position, deadline and
\* importance, and maps its key to it; the records that existed and the
\* index entries of the other keys are unchanged.
C14_AddFrame ==
    [][\A c \in Companies, p \in Positions, d \in DeadlineInputs, i \in ImportanceInputs :
          last'.printed = "Added" /\ add_application(c, p, d, i)
             => LET new == Len(recs) + 1
                IN /\ Len(recs') = new
                   /\ recs'[new].company = c /\ recs'[new].position = p
                   /\ recs'[new].importance = i /\ recs'[new].status = "Pending"
                   /\ IsValidDeadline(d) => recs'[new].deadline = DayNamed(d)
                   /\ Len(job_heap') = Len(job_heap) + 1
                   /\ Items(job_heap') = InHeap \cup {new}
                   /\ new \notin InHeap
                   /\ DOMAIN jobs' = DOMAIN jobs \cup {<<c, p>>}
                   /\ jobs'[<<c, p>>] = new
                   /\ \A k \in DOMAIN jobs \ {<<c, p>>} : jobs'[k] = jobs[k]
                   /\ \A id \in 1..Len(recs) : recs'[id] = recs[id]]_vars

\* a record was added to a queue that held two records, one of them of
\* another key
C14_Witness ==
    /\ last.op = "add_application"
    /\ last.printed = "Added"
    /\ Len(job_heap) = 3
    /\ Cardinality(DOMAIN jobs) = 2
    /\ recs[Len(recs)].status = "Pending"
    /\ Len(recs) \in InHeap

(***************************************************************************)
(* The comparator on its own: NumOperands JobApplication objects are       *)
(* constructed from valid inputs, the tracker stays empty, and a step      *)
(* compares two of them.  For a comparison last.ret is the Boolean that    *)
(* __lt__ returned.                                                        *)
(***************************************************************************)
NumOperands == 3
MaxImportance == 3

D_1231 == <<"2", "0", "2", "4", "-", "1", "2", "-", "3", "1">>

CmpDeadlines == {D_1231, D_0501, D_0601}
CmpImportances == 1..MaxImportance

\* JobApplication(company, position, deadline, importance) for a deadline
\* that parses and a positive importance
JobApplication(company, position, deadline, importance) ==
    [company |-> company, position |-> position, deadline |-> strptime(deadline),
     importance |-> importance, status |-> "Pending"]

CmpRecords ==
    {JobApplication("Acme", "Eng", d, i) : d \in CmpDeadlines, i \in CmpImportances}

InitLt ==
    /\ recs \in [1..NumOperands -> CmpRecords]
    /\ job_heap = <<>>
    /\ jobs = <<>>
    /\ last = Call("init", "", "none", 0, <<>>)

Compare ==
    \E i \in 1..Len(recs), j \in 1..Len(recs) :
        /\ last' = Call("__lt__", "", "none", lt(recs[i], recs[j]), <<>>)
        /\ UNCHANGED <<recs, job_heap, jobs>>

NextLt == Compare

SpecLt == InitLt /\ [][NextLt]_vars

\* C15: __lt__ is a strict weak ordering: irreflexive, asymmetric and
\* transitive, and two records are incomparable exactly when their
\* importance and their deadline are equal.
C15_StrictWeakOrder ==
    \A a \in 1..Len(recs), b \in 1..Len(recs), c \in 1..Len(recs) :
        /\ ~lt(recs[a], recs[a])
        /\ lt(recs[a], recs[b]) => ~lt(recs[b], recs[a])
        /\ lt(recs[a], recs[b]) /\ lt(recs[b], recs[c]) => lt(recs[a], recs[c])
        /\ (~lt(recs[a], recs[b]) /\ ~lt(recs[b], recs[a]))
              <=> (/\ recs[a].importance = recs[b].importance
                   /\ recs[a].deadline = recs[b].deadline)

\* a comparison returned True on a chain of three records, the first step
\* decided by the importance and the second by the deadline
C15_Witness ==
    /\ last.op = "__lt__"
    /\ last.ret = TRUE
    /\ lt(recs[1], recs[2]) /\ lt(recs[2], recs[3])
    /\ recs[1].importance > recs[2].importance
    /\ recs[2].importance = recs[3].importance
    /\ recs[2].deadline[1] < recs[3].deadline[1]

(***************************************************************************)
(* The runs that exercise every status: adds with one deadline and the     *)
(* positive importances, pops, and updates to each of the four statuses    *)
(* and to an unrecognised one.                                             *)
(***************************************************************************)
AllStatusInputs == VALID_STATUSES \cup {"Offer"}

AddPlain ==
    \E c \in Companies, p \in Positions, i \in ImportanceInputs \ {0} :
        add_application(c, p, D_0601, i)

UpdateStatusAny ==
    \E c \in Companies, p \in Positions, s \in AllStatusInputs : update_status(c, p, s)

NextStatus == AddPlain \/ ProcessNext \/ UpdateStatusAny

SpecStatus == Init /\ [][NextStatus]_vars

\* C16: for a key the index holds and any of the four statuses, whatever
\* the status of the mapped record is, update_status succeeds and the
\* record's status is the new one afterwards.
C16_AnyStatusTransition ==
    [][\A c \in Companies, p \in Positions, s \in VALID_STATUSES :
          <<c, p>> \in DOMAIN jobs /\ update_status(c, p, s)
             => /\ last'.printed = "Updated"
                /\ last'.raised = "none"
                /\ recs'[jobs[<<c, p>>]].status = s]_vars

\* an update has just succeeded while a queued record that the index maps
\* to is Processed and another one is Rejected
C16_Witness ==
    /\ last.op = "update_status"
    /\ last.printed = "Updated"
    /\ \E k1 \in DOMAIN jobs, k2 \in DOMAIN jobs :
          /\ jobs[k1] \in InHeap /\ jobs[k2] \in InHeap
          /\ recs[jobs[k1]].status = "Processed"
          /\ recs[jobs[k2]].status = "Rejected"

\* C17: the index only maps to queued records; a record that has left the
\* queue never returns to it, is Processed and is never changed again.
C17_IndexMapsQueuedRecords ==
    [][/\ \A k \in DOMAIN jobs' : jobs'[k] \in Items(job_heap')
       /\ \A id \in (1..Len(recs)) \ InHeap :
             /\ id \notin Items(job_heap')
             /\ recs[id].status = "Processed"
             /\ recs'[id] = recs[id]
       /\ \A id \in InHeap \ Items(job_heap') : recs'[id].status = "Processed"]_vars

\* a record of a key was removed, a later record of the same key is queued
\* and mapped by the index, and an update of the key has changed the queued
\* record only
C17_Witness ==
    /\ last.op = "update_status"
    /\ last.printed = "Updated"
    /\ \E gone \in (1..Len(recs)) \ InHeap, id \in InHeap :
          /\ KeyOf(gone) = KeyOf(id)
          /\ KeyOf(id) \in DOMAIN jobs
          /\ jobs[KeyOf(id)] = id
          /\ recs[id].status = "Interviewing"
          /\ recs[gone].status = "Processed"

\* C18: every record that leaves the queue is returned by the
\* process_next_application call that takes it out, and a call returns only
\* the record it takes out (so no record is returned twice).
C18_EveryRecordReturnedOnce ==
    [][/\ \A id \in InHeap \ Items(job_heap') :
             /\ last'.op = "process_next_application"
             /\ last'.raised = "none"
             /\ last'.ret = id
       /\ last'.op = "process_next_application" /\ last'.ret # 0
             => last'.ret \in InHeap \ Items(job_heap')]_vars

====
